---- MODULE Spec2Model ----
(***************************************************************************)
(* A model of quiz_generator.py: the response parser (parse_questions),    *)
(* the generate handler (main, fetch_questions) and the quiz form with its *)
(* grading (display_quiz).                                                 *)
(*                                                                         *)
(* A Python str is a sequence of one-character strings, so that strip,     *)
(* split, replace, startswith, upper and the option regex are computed     *)
(* character by character, as Python computes them.                        *)
(***************************************************************************)
EXTENDS Integers, Sequences, FiniteSets, TLC

VARIABLES
    pc,              \* which harness is running and how far it is
    raw_text,        \* parse_questions' argument / the model's last reply
    parsed,          \* parse_questions(raw_text)
    reparsed,        \* parse_questions(serialize(parsed))
    blocks,          \* the blocks a well-formed reply was written from
    text_content,    \* st.text_area: the content of the last generate press
    questions,       \* st.session_state["questions"], None when the key is absent
    selected,        \* the value of the radio q_i, None when nothing is selected
    form_shown,      \* the last run rendered the quiz form
    message,         \* the status banner of the last run
    result,          \* what the last run graded, None when it graded nothing
    last,            \* the event the last step handled
    score,           \* tier harness: the score
    total,           \* tier harness: len(questions)
    tier             \* tier harness: the message chosen

vars == <<pc, raw_text, parsed, reparsed, blocks, text_content, questions,
          selected, form_shown, message, result, last, score, total, tier>>

\* An optional value is a sequence of no or one element: None, or Some(v)
\* whose value is o[1].
None == <<>>
Some(v) == <<v>>

----------------------------------------------------------------------------
(* Python str primitives *)

\* str.strip() strips these (of the characters the inputs are written with)
Whitespace == {" ", "\t", "\n", "\r"}

Lowercase == <<"a","b","c","d","e","f","g","h","i","j","k","l","m",
               "n","o","p","q","r","s","t","u","v","w","x","y","z">>
Uppercase == <<"A","B","C","D","E","F","G","H","I","J","K","L","M",
               "N","O","P","Q","R","S","T","U","V","W","X","Y","Z">>

Question_ == <<"Q","u","e","s","t","i","o","n",":">>
Answer_ == <<"A","n","s","w","e","r",":">>
Newline == <<"\n">>
BlankLine == <<"\n","\n">>
NotFound == <<"N","o","t"," ","f","o","u","n","d">>

RECURSIVE lstrip(_)
lstrip(s) ==
    IF s # <<>> /\ Head(s) \in Whitespace THEN lstrip(Tail(s)) ELSE s

RECURSIVE rstrip(_)
rstrip(s) ==
    IF s # <<>> /\ s[Len(s)] \in Whitespace
    THEN rstrip(SubSeq(s, 1, Len(s) - 1)) ELSE s

strip(s) == rstrip(lstrip(s))

startswith(s, prefix) ==
    Len(prefix) <= Len(s) /\ SubSeq(s, 1, Len(prefix)) = prefix

\* str.find from index i (1-based); 0 when sub does not occur
RECURSIVE find(_, _, _)
find(s, sub, i) ==
    IF i + Len(sub) - 1 > Len(s) THEN 0
    ELSE IF SubSeq(s, i, i + Len(sub) - 1) = sub THEN i
    ELSE find(s, sub, i + 1)

\* str.split(sep): always at least one piece
RECURSIVE split(_, _)
split(s, sep) ==
    LET i == find(s, sep, 1) IN
    IF i = 0 THEN <<s>>
    ELSE <<SubSeq(s, 1, i - 1)>> \o split(SubSeq(s, i + Len(sep), Len(s)), sep)

\* str.replace(old, new): every non-overlapping occurrence, left to right
RECURSIVE replace(_, _, _)
replace(s, old, new) ==
    LET i == find(s, old, 1) IN
    IF i = 0 THEN s
    ELSE SubSeq(s, 1, i - 1) \o new
         \o replace(SubSeq(s, i + Len(old), Len(s)), old, new)

upper_char(c) ==
    IF \E k \in DOMAIN Lowercase : Lowercase[k] = c
    THEN Uppercase[CHOOSE k \in DOMAIN Lowercase : Lowercase[k] = c]
    ELSE c

upper(s) == [k \in DOMAIN s |-> upper_char(s[k])]

\* truthiness of a str or a list
truthy(v) == v # <<>>

----------------------------------------------------------------------------
(* parse_questions *)

\* the option pattern with the letter range one too wide
re_match_option_A_to_E(s) ==
    Len(s) >= 2 /\ s[1] \in {"A", "B", "C", "D", "E"} /\ s[2] \in {")", "."}

\* re.match(r"^[A-D][).]", s)
re_match_option(s) ==
    Len(s) >= 2 /\ s[1] \in {"A", "B", "C", "D"} /\ s[2] \in {")", "."}

new_q_data == [question |-> <<>>, options |-> <<>>, answer |-> <<>>]

\* the body of the loop over the lines of a block
scan_line(q_data, line) ==
    IF startswith(line, Question_)
    THEN [q_data EXCEPT !.question = strip(replace(line, Question_, <<>>))]
    ELSE IF re_match_option(strip(line))
    THEN [q_data EXCEPT !.options = Append(@, strip(line))]
    ELSE IF startswith(line, Answer_)
    THEN [q_data EXCEPT !.answer = upper(strip(replace(line, Answer_, <<>>)))]
    ELSE q_data

RECURSIVE scan_lines(_, _)
scan_lines(q_data, lines) ==
    IF lines = <<>> THEN q_data
    ELSE scan_lines(scan_line(q_data, Head(lines)), Tail(lines))

scan_block(block) == scan_lines(new_q_data, split(strip(block), Newline))

\* the acceptance test without its options conjunct
accepted_without_options(q_data) ==
    truthy(q_data.question) /\ truthy(q_data.answer)

\* the test that appends q_data to questions
accepted(q_data) ==
    truthy(q_data.question) /\ truthy(q_data.options) /\ truthy(q_data.answer)

RECURSIVE parse_blocks(_)
parse_blocks(bs) ==
    IF bs = <<>> THEN <<>>
    ELSE LET q_data == scan_block(Head(bs)) IN
         (IF accepted(q_data) THEN <<q_data>> ELSE <<>>) \o parse_blocks(Tail(bs))

parse_questions(raw) == parse_blocks(split(strip(raw), BlankLine))

----------------------------------------------------------------------------
(* Python float arithmetic of the feedback thresholds.  A natural number is *)
(* its sequence of bits, least significant first, without leading zeros; a *)
(* float is [sig, exp], the value sig * 2^-exp, sig of at most 53 bits.    *)

MantissaBits == 53

RECURSIVE nat_bits(_)
nat_bits(n) == IF n = 0 THEN <<>> ELSE <<n % 2>> \o nat_bits(n \div 2)

RECURSIVE trim_bits(_)
trim_bits(a) ==
    IF a # <<>> /\ a[Len(a)] = 0 THEN trim_bits(SubSeq(a, 1, Len(a) - 1)) ELSE a

RECURSIVE add_bits(_, _, _)
add_bits(a, b, carry) ==
    IF a = <<>> /\ b = <<>> THEN (IF carry = 1 THEN <<1>> ELSE <<>>)
    ELSE LET x == IF a = <<>> THEN 0 ELSE Head(a)
             y == IF b = <<>> THEN 0 ELSE Head(b)
             t == x + y + carry
         IN  <<t % 2>> \o add_bits(IF a = <<>> THEN <<>> ELSE Tail(a),
                                  IF b = <<>> THEN <<>> ELSE Tail(b), t \div 2)

shift_left(a, k) == IF a = <<>> THEN <<>> ELSE [i \in 1..k |-> 0] \o a

RECURSIVE mul_nat(_, _)
mul_nat(n, a) ==
    IF n = 0 THEN <<>>
    ELSE LET twice == shift_left(mul_nat(n \div 2, a), 1) IN
         IF n % 2 = 1 THEN add_bits(twice, a, 0) ELSE twice

ge_bits(a, b) ==
    IF Len(a) # Len(b) THEN Len(a) > Len(b)
    ELSE LET D == {i \in DOMAIN a : a[i] # b[i]} IN
         D = {} \/ a[CHOOSE i \in D : \A j \in D : j <= i] = 1

\* round to nearest, ties to even, to MantissaBits significant bits
round_to_double(p) ==
    IF Len(p) <= MantissaBits THEN p
    ELSE LET k == Len(p) - MantissaBits
             q == SubSeq(p, k + 1, Len(p))
             sticky == \E i \in 1..(k - 1) : p[i] = 1
             up == p[k] = 1 /\ (sticky \/ q[1] = 1)
         IN  shift_left(IF up THEN add_bits(q, <<1>>, 0) ELSE q, k)

RECURSIVE hex_bits(_)
hex_bits(h) ==
    IF h = <<>> THEN <<>>
    ELSE LET d == h[Len(h)] IN
         <<d % 2, (d \div 2) % 2, (d \div 4) % 2, (d \div 8) % 2>>
         \o hex_bits(SubSeq(h, 1, Len(h) - 1))

\* the literal 0.7 is the double 0x1.6666666666666p-1
Float_0_7 ==
    [sig |-> trim_bits(hex_bits(<<1, 6, 6, 6, 6, 6, 6, 6, 6, 6, 6, 6, 6, 6>>)),
     exp |-> 53]

\* the literal 0.4 is the double 0x1.999999999999ap-2
Float_0_4 ==
    [sig |-> trim_bits(hex_bits(<<1, 9, 9, 9, 9, 9, 9, 9, 9, 9, 9, 9, 9, 10>>)),
     exp |-> 54]

\* int * float: the int converts exactly, the product is rounded once
int_times_float(n, f) ==
    [sig |-> round_to_double(mul_nat(n, f.sig)), exp |-> f.exp]

\* int >= float, compared exactly
int_ge_float(n, f) == ge_bits(shift_left(nat_bits(n), f.exp), f.sig)

\* int > float
int_gt_float(n, f) ==
    int_ge_float(n, f) /\ shift_left(nat_bits(n), f.exp) # f.sig

\* the thresholds compared with > where the code compares with >=
feedback_strict(s, n) ==
    IF s = n THEN "perfect"
    ELSE IF int_gt_float(s, int_times_float(n, Float_0_7)) THEN "great"
    ELSE IF int_gt_float(s, int_times_float(n, Float_0_4)) THEN "not_bad"
    ELSE "dont_give_up"

\* the encouragement message chosen for score s out of n questions
feedback(s, n) ==
    IF s = n THEN "perfect"
    ELSE IF int_ge_float(s, int_times_float(n, Float_0_7)) THEN "great"
    ELSE IF int_ge_float(s, int_times_float(n, Float_0_4)) THEN "not_bad"
    ELSE "dont_give_up"

----------------------------------------------------------------------------
(* The output grammar asked of the model, and the replies the harnesses use *)

RECURSIVE join(_, _)
join(pieces, sep) ==
    IF pieces = <<>> THEN <<>>
    ELSE IF Len(pieces) = 1 THEN pieces[1]
    ELSE pieces[1] \o sep \o join(Tail(pieces), sep)

\* one block of the format the prompt asks for
format_block(text, option_lines, answer) ==
    join(<<Question_ \o <<" ">> \o text>> \o option_lines
         \o <<Answer_ \o <<" ">> \o answer>>, Newline)

RECURSIVE format_blocks(_)
format_blocks(qs) ==
    IF qs = <<>> THEN <<>>
    ELSE <<format_block(qs[1].question, qs[1].options, qs[1].answer)>>
         \o format_blocks(Tail(qs))

\* a QuizSet written back in the grammar, blocks separated by a blank line
serialize(qs) == join(format_blocks(qs), BlankLine)

MaxLines == 3
MaxBlocks == 2

\* the lines a reply is written with: well-formed, degraded and stray ones
LineShapes ==
    { Question_ \o <<" ", "x">>,
      Question_,
      Question_ \o <<"Q","u","e","s">> \o Question_ \o <<"t","i","o","n",":"," ","y">>,
      <<"A", ")", " ", "x">>,
      <<" ", "B", ".", " ", "y", " ">>,
      <<"E", ")", " ", "z">>,
      Answer_ \o <<" ", "b">>,
      Answer_,
      Answer_ \o <<" ", "E">>,
      <<>>,
      <<" ">> \o Answer_ \o <<" ", "a">> }

RECURSIVE SeqsUpTo(_, _)
SeqsUpTo(S, n) ==
    IF n = 0 THEN {<<>>}
    ELSE LET shorter == SeqsUpTo(S, n - 1) IN
         shorter \cup {Append(t, e) : t \in {u \in shorter : Len(u) = n - 1}, e \in S}

\* the replies of at most n lines
LineInputs(n) == {join(ls, Newline) : ls \in SeqsUpTo(LineShapes, n)}

\* a block with or without each of its three parts
QuestionLines == {<<>>, <<Question_ \o <<" ", "x">>>>}
OptionLines == {<<>>, <<<<"A", ")", " ", "x">>>>,
                <<<<"A", ")", " ", "x">>, <<"C", ".", "y">>>>}
AnswerLines == {<<>>, <<Answer_ \o <<" ", "c">>>>}

BlockShapes ==
    {join(q \o o \o a, Newline) :
        q \in QuestionLines, o \in OptionLines, a \in AnswerLines}

\* the replies of at most n blocks
BlockInputs(n) == {join(bs, BlankLine) : bs \in SeqsUpTo(BlockShapes, n)}

----------------------------------------------------------------------------
(* The parser harness: parse a reply, then parse its own serialization *)

Idle ==
    /\ text_content = <<>>
    /\ questions = None
    /\ selected = <<>>
    /\ form_shown = FALSE
    /\ message = "none"
    /\ result = None
    /\ last = "none"

NoTier == score = 0 /\ total = 0 /\ tier = "none"

InitParse ==
    /\ pc = "raw"
    /\ raw_text \in LineInputs(MaxLines) \cup BlockInputs(MaxBlocks)
    /\ parsed = None
    /\ reparsed = None
    /\ blocks = None
    /\ Idle
    /\ NoTier

Parse ==
    /\ pc = "raw"
    /\ parsed' = parse_questions(raw_text)
    /\ pc' = "parsed"
    /\ UNCHANGED <<raw_text, reparsed, blocks, text_content, questions, selected,
                   form_shown, message, result, last, score, total, tier>>

Reparse ==
    /\ pc = "parsed"
    /\ reparsed' = parse_questions(serialize(parsed))
    /\ pc' = "reparsed"
    /\ UNCHANGED <<raw_text, parsed, blocks, text_content, questions, selected,
                   form_shown, message, result, last, score, total, tier>>

NextParse == Parse \/ Reparse

SpecParse == InitParse /\ [][NextParse]_vars

----------------------------------------------------------------------------
(* The well-formed harness: replies written exactly in the prompt's format *)

MaxWellFormed == 2

Labels == <<"A", "B", "C", "D">>

\* "A) [Option A]" ... "D) [Option D]"
option_line(k, text) == <<Labels[k], ")", " ">> \o text

Texts ==
    { <<"x">>, <<"y">>, <<"x", " ">> \o Question_ \o <<" ", "y">> }

OptionTexts ==
    { << <<"p">>, <<"q">>, <<"r">>, <<"s">> >>,
      << <<"s">>, <<"s">>, <<"q", " ", "r">>, <<"p">> >> }

WellFormedBlocks ==
    [text : Texts, options : OptionTexts, answer : {"A", "B", "C", "D"}]

option_lines(b) == [k \in 1..4 |-> option_line(k, b.options[k])]

well_formed(bs, sep) ==
    join([k \in DOMAIN bs |->
             format_block(bs[k].text, option_lines(bs[k]), <<bs[k].answer>>)],
         sep)

\* one blank line between two blocks, or two
BlockSeparators == {BlankLine, <<"\n", "\n", "\n">>}

InitWellFormed ==
    /\ pc = "raw"
    /\ blocks \in SeqsUpTo(WellFormedBlocks, MaxWellFormed)
    /\ raw_text \in {well_formed(blocks, sep) : sep \in BlockSeparators}
    /\ parsed = None
    /\ reparsed = None
    /\ Idle
    /\ NoTier

NextWellFormed == Parse

SpecWellFormed == InitWellFormed /\ [][NextWellFormed]_vars

\* C5: a reply of k blocks that follow the grammar exactly, separated by
\* blank lines, parses into exactly k Questions, the i-th carrying the text,
\* the four options and the answer of the i-th block.
C5_OnePerBlock ==
    pc = "parsed" =>
        /\ Len(parsed) = Len(blocks)
        /\ \A k \in DOMAIN parsed :
              parsed[k] = [question |-> blocks[k].text,
                           options |-> option_lines(blocks[k]),
                           answer |-> <<blocks[k].answer>>]

----------------------------------------------------------------------------
(* fetch_questions and display_quiz *)

\* what requests.post and response.json() can come to: an exception, a
\* status other than 200, a body without "candidates", or a generated text
ApiFailures == {"exception", "status", "no_candidates"}

fetch_questions(api) ==
    IF api.kind = "ok" THEN Some(parse_questions(api.text)) ELSE None

\* `not questions`: None and the empty list are both falsy
falsy(v) == IF v = None THEN TRUE ELSE v[1] = <<>>

\* `if selected:` for the value of a radio
is_selected(o) == o # None /\ truthy(o[1])

\* display_quiz's all_answered after the loop over the radios
all_answered(sel) == \A i \in DOMAIN sel : is_selected(sel[i])

\* selected_answers: the first character of each selected option
selected_answers(sel) ==
    [i \in DOMAIN sel |-> IF is_selected(sel[i]) THEN Some(sel[i][1][1]) ELSE None]

\* a comparison by prefix where the code compares for equality
is_correct_by_prefix(q, user_answer) == startswith(q.answer, upper(<<user_answer>>))

\* user_answer.upper() == correct
is_correct(q, user_answer) == upper(<<user_answer>>) = q.answer

\* the lookup with the label compared instead of the option's prefix
correct_option_by_label(q) ==
    LET K == {k \in DOMAIN q.options : <<q.options[k][1]>> = q.answer} IN
    IF K = {} THEN NotFound
    ELSE q.options[CHOOSE k \in K : \A j \in K : k <= j]

\* next((opt for opt in q["options"] if opt.startswith(correct)), "Not found")
correct_option(q) ==
    LET K == {k \in DOMAIN q.options : startswith(q.options[k], q.answer)} IN
    IF K = {} THEN NotFound
    ELSE q.options[CHOOSE k \in K : \A j \in K : k <= j]

\* one turn of the grading loop: what is shown for question q
grade_question(q, user_answer) ==
    IF is_correct(q, user_answer)
    THEN [correct |-> TRUE, correct_option |-> None]
    ELSE [correct |-> FALSE, correct_option |-> Some(correct_option(q))]

\* score after the loop: one more for each correct answer
RECURSIVE count_score(_, _)
count_score(outcomes, so_far) ==
    IF outcomes = <<>> THEN so_far
    ELSE count_score(Tail(outcomes),
                     IF Head(outcomes).correct THEN so_far + 1 ELSE so_far)

\* the results display_quiz renders once every question is answered
grade(qs, sel) ==
    LET answers == selected_answers(sel)
        outcomes == [i \in DOMAIN qs |-> grade_question(qs[i], answers[i][1])]
        s == count_score(outcomes, 0)
    IN  [score |-> s, total |-> Len(qs), outcomes |-> outcomes,
         feedback |-> feedback(s, Len(qs))]

----------------------------------------------------------------------------
(* The session: one action per run of main() and per click in the form *)

MaxReplyBlocks == 2

\* the text area's content: blank, or some text
Contents == {<<" ">>, <<"x">>}

\* blocks of a reply: answered by label b of two options; answered E, which
\* no option carries; without an answer; answered "b)" with one option
ReplyBlocks ==
    { join(<<Question_ \o <<" ", "x">>, <<"A", ")", " ", "x">>,
             <<"B", ")", " ", "y">>, Answer_ \o <<" ", "b">>>>, Newline),
      join(<<Question_ \o <<" ", "y">>, <<"A", ")", " ", "x">>,
             <<"C", ".", "y">>, Answer_ \o <<" ", "E">>>>, Newline),
      join(<<Question_ \o <<" ", "x">>, <<"A", ")", " ", "x">>>>, Newline),
      join(<<Question_ \o <<" ", "z">>, <<"B", ")", " ", "x">>,
             Answer_ \o <<" ", "b", ")">>>>, Newline) }

\* the replies of at most n blocks
Replies(n) == {join(bs, BlankLine) : bs \in SeqsUpTo(ReplyBlocks, n)}

ApiOutcomes ==
    [kind : ApiFailures, text : {<<>>}]
    \cup [kind : {"ok"}, text : Replies(MaxReplyBlocks)]

\* each outcome of the call with what fetch_questions returns on it
Fetches == {[api |-> a, questions |-> fetch_questions(a)] : a \in ApiOutcomes}

unselected(qs) == [i \in DOMAIN qs |-> None]

\* the radios of a newly loaded quiz start unselected (index=None); whether a
\* radio q_i whose label and options did not change keeps its value is the
\* framework's choice
rendered_selections(qs, old_qs, old_sel) ==
    { unselected(qs),
      [i \in DOMAIN qs |->
          IF /\ i \in DOMAIN old_sel
             /\ old_qs[1][i].question = qs[i].question
             /\ old_qs[1][i].options = qs[i].options
          THEN old_sel[i] ELSE None] }

Init ==
    /\ pc = "session"
    /\ raw_text = None
    /\ parsed = None
    /\ reparsed = None
    /\ blocks = None
    /\ Idle
    /\ NoTier

\* main(): "Generate Quiz" pressed with blank content
GenerateBlank ==
    \E content \in Contents :
        /\ ~truthy(strip(content))
        /\ text_content' = content
        /\ message' = "warning_content"
        /\ form_shown' = FALSE
        /\ selected' = <<>>
        /\ result' = None
        /\ last' = "generate_blank"
        /\ UNCHANGED <<pc, raw_text, parsed, reparsed, blocks, questions,
                       score, total, tier>>

\* the failed call that also forgets the quiz of the session
GenerateFailed_discards ==
    \E content \in Contents, fetch \in Fetches :
        /\ truthy(strip(content))
        /\ fetch.api.kind \in ApiFailures
        /\ falsy(fetch.questions)
        /\ text_content' = content
        /\ questions' = None
        /\ message' = "error_generate"
        /\ form_shown' = FALSE
        /\ selected' = <<>>
        /\ result' = None
        /\ last' = "generate_failed"
        /\ UNCHANGED <<pc, raw_text, parsed, reparsed, blocks, score, total, tier>>

\* main(): "Generate Quiz" pressed, the call to the model fails
GenerateFailed ==
    \E content \in Contents, fetch \in Fetches :
        /\ truthy(strip(content))
        /\ fetch.api.kind \in ApiFailures
        /\ falsy(fetch.questions)
        /\ text_content' = content
        /\ message' = "error_generate"
        /\ form_shown' = FALSE
        /\ selected' = <<>>
        /\ result' = None
        /\ last' = "generate_failed"
        /\ UNCHANGED <<pc, raw_text, parsed, reparsed, blocks, questions,
                       score, total, tier>>

\* main(): "Generate Quiz" pressed, the reply parses into no question
GenerateEmpty ==
    \E content \in Contents, fetch \in Fetches :
        /\ truthy(strip(content))
        /\ fetch.api.kind = "ok"
        /\ falsy(fetch.questions)
        /\ text_content' = content
        /\ raw_text' = fetch.api.text
        /\ message' = "error_generate"
        /\ form_shown' = FALSE
        /\ selected' = <<>>
        /\ result' = None
        /\ last' = "generate_empty"
        /\ UNCHANGED <<pc, parsed, reparsed, blocks, questions, score, total, tier>>

\* main(): "Generate Quiz" pressed, the reply parses into a quiz, which is
\* stored and displayed
GenerateLoaded ==
    \E content \in Contents, fetch \in Fetches :
        /\ truthy(strip(content))
        /\ ~falsy(fetch.questions)
        /\ text_content' = content
        /\ raw_text' = fetch.api.text
        /\ questions' = fetch.questions
        /\ selected' \in rendered_selections(fetch.questions[1], questions, selected)
        /\ form_shown' = TRUE
        /\ message' = "none"
        /\ result' = None
        /\ last' = "generate_loaded"
        /\ UNCHANGED <<pc, parsed, reparsed, blocks, score, total, tier>>

\* main() run again with no button pressed (the content or the level edited)
Rerun ==
    /\ form_shown' = (questions # None)
    /\ selected' = IF questions = None THEN <<>>
                   ELSE IF form_shown THEN selected ELSE unselected(questions[1])
    /\ message' = "none"
    /\ result' = None
    /\ last' = "rerun"
    /\ UNCHANGED <<pc, raw_text, parsed, reparsed, blocks, text_content,
                   questions, score, total, tier>>

\* the user picks an option of question i in the form
Select ==
    \E i \in DOMAIN selected :
        \E k \in DOMAIN questions[1][i].options :
            /\ form_shown
            /\ selected' = [selected EXCEPT ![i] = Some(questions[1][i].options[k])]
            /\ last' = "select"
            /\ UNCHANGED <<pc, raw_text, parsed, reparsed, blocks, text_content,
                           questions, form_shown, message, result, score, total, tier>>

\* the rejected submit that grades the answered questions all the same
SubmitRejected_grades_answered ==
    /\ form_shown
    /\ ~all_answered(selected)
    /\ message' = "warning_unanswered"
    /\ result' = Some([score |-> Cardinality({i \in DOMAIN selected :
                                    is_selected(selected[i])
                                    /\ is_correct(questions[1][i], selected[i][1][1])}),
                       total |-> Len(questions[1])])
    /\ last' = "submit_rejected"
    /\ UNCHANGED <<pc, raw_text, parsed, reparsed, blocks, text_content,
                   questions, selected, form_shown, score, total, tier>>

\* "Submit Quiz" pressed with a question left unanswered
SubmitRejected ==
    /\ form_shown
    /\ ~all_answered(selected)
    /\ message' = "warning_unanswered"
    /\ result' = None
    /\ last' = "submit_rejected"
    /\ UNCHANGED <<pc, raw_text, parsed, reparsed, blocks, text_content,
                   questions, selected, form_shown, score, total, tier>>

\* "Submit Quiz" pressed with every question answered
SubmitGraded ==
    /\ form_shown
    /\ all_answered(selected)
    /\ message' = "none"
    /\ result' = Some(grade(questions[1], selected))
    /\ last' = "submit_graded"
    /\ UNCHANGED <<pc, raw_text, parsed, reparsed, blocks, text_content,
                   questions, selected, form_shown, score, total, tier>>

Next ==
    \/ GenerateBlank
    \/ GenerateFailed
    \/ GenerateEmpty
    \/ GenerateLoaded
    \/ Rerun
    \/ Select
    \/ SubmitRejected
    \/ SubmitGraded

Spec == Init /\ [][Next]_vars

----------------------------------------------------------------------------
(* The feedback harness: every score out of every total up to MaxTotal *)

MaxTotal == 10

InitTier ==
    /\ pc = "score"
    /\ total \in 1..MaxTotal
    /\ score \in 0..total
    /\ tier = "none"
    /\ raw_text = None
    /\ parsed = None
    /\ reparsed = None
    /\ blocks = None
    /\ Idle

Feedback ==
    /\ pc = "score"
    /\ tier' = feedback(score, total)
    /\ pc' = "feedback"
    /\ UNCHANGED <<raw_text, parsed, reparsed, blocks, text_content, questions,
                   selected, form_shown, message, result, last, score, total>>

NextTier == Feedback

SpecTier == InitTier /\ [][NextTier]_vars

\* C7: the feedback tier is decided by score and total alone, one tier only:
\* top when score = total, else high when 10*score >= 7*total, else mid when
\* 10*score >= 4*total, else low, every boundary inclusive (7/10 is high,
\* 4/10 is mid, 2/5 is mid, 1/5 is low).
C7_TierBoundaries ==
    pc = "feedback" =>
        /\ tier = IF score = total THEN "perfect"
                  ELSE IF 10 * score >= 7 * total THEN "great"
                  ELSE IF 10 * score >= 4 * total THEN "not_bad"
                  ELSE "dont_give_up"
        /\ (score = 7 /\ total = 10 => tier = "great")
        /\ (score = 4 /\ total = 10 => tier = "not_bad")
        /\ (score = 2 /\ total = 5 => tier = "not_bad")
        /\ (score = 1 /\ total = 5 => tier = "dont_give_up")

\* 7 out of 10, exactly on the high tier's boundary
C7_Witness == pc = "feedback" /\ score = 7 /\ total = 10 /\ tier = "great"

----------------------------------------------------------------------------
(* Claims about parse_questions, under SpecParse *)

Letters == {"A", "B", "C", "D"}

ParsedNow == pc \in {"parsed", "reparsed"}

C3_IsOption(l) ==
    LET t == strip(l) IN Len(t) >= 2 /\ t[1] \in Letters /\ t[2] \in {")", "."}

\* what the last line of ls that begins with prefix leaves, <<>> without one
C3_Captured(ls, prefix) ==
    LET K == {k \in DOMAIN ls : startswith(ls[k], prefix)} IN
    IF K = {} THEN <<>>
    ELSE strip(replace(ls[CHOOSE k \in K : \A j \in K : j <= k], prefix, <<>>))

C3_Lines(b) == split(strip(b), Newline)

C3_HasQuestion(b) == C3_Captured(C3_Lines(b), Question_) # <<>>
C3_HasOption(b) == \E k \in DOMAIN C3_Lines(b) : C3_IsOption(C3_Lines(b)[k])
C3_HasAnswer(b) == C3_Captured(C3_Lines(b), Answer_) # <<>>

C3_Included(b) == C3_HasQuestion(b) /\ C3_HasOption(b) /\ C3_HasAnswer(b)

C3_Question(b) ==
    LET opts == SelectSeq(C3_Lines(b), C3_IsOption) IN
    [question |-> C3_Captured(C3_Lines(b), Question_),
     options |-> [k \in DOMAIN opts |-> strip(opts[k])],
     answer |-> upper(C3_Captured(C3_Lines(b), Answer_))]

RECURSIVE C3_Expected(_)
C3_Expected(bs) ==
    IF bs = <<>> THEN <<>>
    ELSE (IF C3_Included(Head(bs)) THEN <<C3_Question(Head(bs))>> ELSE <<>>)
         \o C3_Expected(Tail(bs))

C3_Blocks == split(strip(raw_text), BlankLine)

\* C3: a block is in parse_questions' result if and only if, once all its
\* lines are scanned, it has a non-empty question text, at least one option
\* line and a non-empty answer; the result holds exactly the blocks with all
\* three, in order, and the empty input gives the empty sequence.
C3_IncludedIffAllThree ==
    ParsedNow =>
        /\ parsed = C3_Expected(C3_Blocks)
        /\ Len(parsed) = Cardinality({k \in DOMAIN C3_Blocks : C3_Included(C3_Blocks[k])})
        /\ (raw_text = <<>> => parsed = <<>>)

\* a reply of two blocks: one is kept, the other has a question and an
\* option but no answer and is dropped
C3_Witness ==
    /\ pc = "parsed"
    /\ Len(parsed) = 1
    /\ Len(C3_Blocks) = 2
    /\ \E k \in DOMAIN C3_Blocks :
          LET b == C3_Blocks[k] IN
          C3_HasQuestion(b) /\ C3_HasOption(b) /\ ~C3_HasAnswer(b)

\* C4 as claimed: every returned Question has a non-empty text, exactly four
\* options labelled A, B, C, D in that order and an answer among A-D.
C4_QuestionInvariant ==
    ParsedNow =>
        \A k \in DOMAIN parsed :
            LET q == parsed[k] IN
            /\ q.question # <<>>
            /\ Len(q.options) = 4
            /\ <<q.options[1][1], q.options[2][1], q.options[3][1], q.options[4][1]>>
                 = <<"A", "B", "C", "D">>
            /\ q.answer \in {<<l>> : l \in Letters}

\* C4 amended: every returned Question has a non-empty trimmed text, at least
\* one option, each a trimmed line that starts with a letter A-D followed by
\* ')' or '.', and a non-empty, trimmed, upper-cased answer. Neither the
\* number of options nor their labels' order nor the answer's being one of
\* A-D is enforced.
C4_MinimalQuestion ==
    ParsedNow =>
        \A k \in DOMAIN parsed :
            LET q == parsed[k] IN
            /\ q.question # <<>> /\ strip(q.question) = q.question
            /\ Len(q.options) >= 1
            /\ \A j \in DOMAIN q.options :
                  LET o == q.options[j] IN
                  /\ Len(o) >= 2 /\ o[1] \in Letters /\ o[2] \in {")", "."}
                  /\ strip(o) = o
            /\ q.answer # <<>> /\ strip(q.answer) = q.answer
            /\ \A j \in DOMAIN q.answer :
                  \A i \in DOMAIN Lowercase : q.answer[j] # Lowercase[i]

\* a returned Question with a single option and the answer E
C4_Witness ==
    /\ pc = "parsed"
    /\ \E k \in DOMAIN parsed :
          Len(parsed[k].options) = 1 /\ parsed[k].answer = <<"E">>

\* C9: parsing the serialization of a parsed QuizSet gives that QuizSet back.
C9_RoundTrip == pc = "reparsed" => reparsed = parsed

----------------------------------------------------------------------------
(* Claims about the session, under Spec *)

SubmitStep == last' \in {"submit_rejected", "submit_graded"}

\* C1: a submit with some question unanswered grades nothing (no result, no
\* score, no feedback), shows the warning and leaves the quiz, the selections
\* and the form as they were; a submit grades only when every question has a
\* selection.
C1_SubmitAllOrNothing ==
    [][SubmitStep =>
          IF \E i \in DOMAIN selected : selected[i] = None
          THEN /\ last' = "submit_rejected"
               /\ result' = None
               /\ questions' = questions
               /\ selected' = selected
               /\ form_shown'
               /\ message' = "warning_unanswered"
          ELSE /\ last' = "submit_graded"
               /\ result' # None]_vars

\* a rejected submit of a two-question quiz with only the first answered
C1_Witness ==
    /\ last = "submit_rejected"
    /\ Len(selected) = 2
    /\ selected[1] # None
    /\ selected[2] = None
    /\ result = None
    /\ form_shown

\* C2: after a generate request that fails or parses into no question, no
\* QuizSet is loaded, whatever was loaded before.
C2_FailureLeavesNoQuiz ==
    last \in {"generate_failed", "generate_empty"} =>
        /\ questions = None
        /\ result = None
        /\ ~form_shown

\* the questions whose selected option's label, upper-cased, is their answer
C6_Right ==
    {i \in DOMAIN selected :
        IF selected[i] = None THEN FALSE
        ELSE upper(<<selected[i][1][1]>>) = questions[1][i].answer}

\* C6: an accepted submit scores the number of questions whose selected
\* option's label equals the question's answer, out of the number of
\* questions; every label right gives score = total and the top tier, every
\* label wrong gives 0.
C6_ScoreCountsMatches ==
    last = "submit_graded" =>
        /\ result[1].score = Cardinality(C6_Right)
        /\ result[1].total = Len(questions[1])
        /\ (C6_Right = DOMAIN questions[1] =>
               result[1].score = result[1].total /\ result[1].feedback = "perfect")
        /\ (C6_Right = {} => result[1].score = 0)

\* two questions, both answered with the right label
C6_Witness ==
    /\ last = "submit_graded"
    /\ Len(questions[1]) = 2
    /\ C6_Right = {1, 2}
    /\ result[1].feedback = "perfect"

\* the options of q that start with its answer
C8_Starts(q) == {k \in DOMAIN q.options : startswith(q.options[k], q.answer)}

\* the questions with an option whose label is their answer
C8_Labelled ==
    {i \in DOMAIN questions[1] :
        \E k \in DOMAIN questions[1][i].options :
            <<questions[1][i].options[k][1]>> = questions[1][i].answer}

\* C8 as claimed: a question none of whose options carries the answer's
\* label is left out of the scoring, out of the score and of the denominator.
C8_MissingMatchExcluded ==
    last = "submit_graded" =>
        /\ result[1].total = Cardinality(C8_Labelled)
        /\ result[1].score <= Cardinality(C8_Labelled)

\* C8 amended: for a question answered incorrectly the correct-option text
\* is the first option that starts with the answer, and "Not found" when
\* there is none; a question with no such option is graded without a crash,
\* is always incorrect and counts in the denominator, so the score stays
\* below the total.
C8_MissingMatchCounted ==
    last = "submit_graded" =>
        /\ result[1].total = Len(questions[1])
        /\ \A i \in DOMAIN questions[1] :
              LET q == questions[1][i]
                  o == result[1].outcomes[i]
              IN  /\ ~o.correct =>
                        o.correct_option =
                            Some(IF C8_Starts(q) = {} THEN NotFound
                                 ELSE q.options[CHOOSE k \in C8_Starts(q) :
                                                    \A j \in C8_Starts(q) : k <= j])
                  /\ C8_Starts(q) = {} =>
                        ~o.correct /\ result[1].score < result[1].total

\* a graded quiz with a question whose answer starts none of its options
C8_Witness ==
    /\ last = "submit_graded"
    /\ \E i \in DOMAIN questions[1] :
          /\ C8_Starts(questions[1][i]) = {}
          /\ result[1].outcomes[i].correct_option = Some(NotFound)
          /\ result[1].total = Len(questions[1])

\* C10: the stored QuizSet changes only in a generate run with non-blank
\* content whose call succeeded and whose reply parsed into a question, and
\* then it is what fetch_questions returned for that reply; every other
\* event leaves it as it was.  So a stored QuizSet is never empty and each
\* of its questions has a text, an option and an answer.
C10_QuizSetWrittenOnlyByGenerate ==
    [][/\ questions' # questions =>
             /\ last' = "generate_loaded"
             /\ truthy(strip(text_content'))
       /\ last' = "generate_loaded" =>
             /\ \E fetch \in Fetches :
                   /\ fetch.api.kind = "ok"
                   /\ fetch.api.text = raw_text'
                   /\ fetch.questions = questions'
       /\ last' \in {"generate_blank", "generate_failed", "generate_empty",
                     "rerun", "select", "submit_rejected", "submit_graded"} =>
             questions' = questions
       /\ questions' # None =>
             /\ questions'[1] # <<>>
             /\ \A k \in DOMAIN questions'[1] :
                   /\ questions'[1][k].question # <<>>
                   /\ questions'[1][k].options # <<>>
                   /\ questions'[1][k].answer # <<>>]_vars

\* a failed generate run with the quiz of the run before still stored
C10_Witness ==
    /\ last = "generate_failed"
    /\ questions # None
    /\ Len(questions[1]) = 2

====
